---- MODULE Spec2Model ----
(***************************************************************************)
(* IT Asset Tracker (src/app.py): the numeric asset-tag allocator, the     *)
(* label-sheet layout loop, and the Streamlit sessions that read and write *)
(* the "assets" and "asset_history" worksheets.                            *)
(*                                                                         *)
(* Strings are sequences of one-character strings: "001" is <<"0","0","1">>*)
(* A worksheet is the sequence of its data rows (the header row is fixed). *)
(* An asset row keeps the columns the handlers branch on: id, asset_tag,   *)
(* branch; a label row keeps asset_tag, name, branch.                      *)
(***************************************************************************)
EXTENDS Integers, Sequences, FiniteSets, TLC

VARIABLES
    now_year,      \* datetime.now().year
    alloc,         \* one call of gen_next_tag_numeric: inputs, position, result
    lab,           \* one call of build_labels_pdf_fpdf: inputs, loop state, pages
    ws_assets,     \* worksheet "assets": its data rows
    ws_hist,       \* worksheet "asset_history": its data rows
    session_state, \* per browser session: st.session_state (the keys present)
    run            \* per browser session: the script run in progress

vars == <<now_year, alloc, lab, ws_assets, ws_hist, session_state, run>>

\* ------------------------------------------------------------------ bounds
\* The most rows of the existing table handed to one allocator call.
MaxTags == 3

\* The widest grid and the most label rows of one PDF build
\* (the page offers up to 5 columns and 20 rows per page).
MaxCols == 3

MaxRowsPerPage == 8

MaxLabels == 25

\* The most rows of the "asset_history" worksheet (every write of the table
\* logs a row, so this bounds the table too) and of one imported CSV file.
MaxHist == 2

MaxImportRows == 2

\* ------------------------------------------------------------- str helpers
Digit == {"0", "1", "2", "3", "4", "5", "6", "7", "8", "9"}

DigitChar == <<"0", "1", "2", "3", "4", "5", "6", "7", "8", "9">>

DigitVal(c) == CHOOSE v \in 0..9 : DigitChar[v + 1] = c

\* str.isdigit(): non-empty and every character a decimal digit
IsDigitStr(s) == Len(s) > 0 /\ \A k \in 1..Len(s) : s[k] \in Digit

\* str.startswith(p)
StartsWith(t, p) == Len(t) >= Len(p) /\ SubSeq(t, 1, Len(p)) = p

\* t[n:]
DropFirst(t, n) == SubSeq(t, n + 1, Len(t))

Repeat0(n) == [k \in 1..n |-> "0"]

ZfillTrunc(s, w) ==
    IF Len(s) >= w THEN SubSeq(s, Len(s) - w + 1, Len(s)) ELSE Repeat0(w - Len(s)) \o s

\* str.zfill(w) of an unsigned numeral: left-pad with "0", never shorten
Zfill(s, w) == IF Len(s) >= w THEN s ELSE Repeat0(w - Len(s)) \o s

RECURSIVE IntOf(_)
\* int(s) of a string of decimal digits
IntOf(s) ==
    IF s = <<>> THEN 0
    ELSE IntOf(SubSeq(s, 1, Len(s) - 1)) * 10 + DigitVal(s[Len(s)])

RECURSIVE StrOf(_)
\* str(n) of a natural number
StrOf(n) ==
    IF n < 10 THEN <<DigitChar[n + 1]>>
    ELSE StrOf(n \div 10) \o <<DigitChar[(n % 10) + 1]>>

\* --------------------------------------------------------- tag generation
RECURSIVE FindAllDigits(_)
\* "".join(re.findall(r"\d+", s)): the digit characters of s, in order
FindAllDigits(s) ==
    IF s = <<>> THEN <<>>
    ELSE IF s[1] \in Digit THEN <<s[1]>> \o FindAllDigits(DropFirst(s, 1))
    ELSE FindAllDigits(DropFirst(s, 1))

\* _digits(s)
Digits_(s) ==
    LET m == FindAllDigits(s) IN IF m # <<>> THEN m ELSE <<"0", "0", "0">>

\* br = _digits(branch_code).zfill(3)
BranchDigits(branch_code) == Zfill(Digits_(branch_code), 3)

\* yr: strftime("%y") / strftime("%Y") / ""
YearComponent(year_mode, year) ==
    IF year_mode = "yy" THEN Zfill(StrOf(year % 100), 2)
    ELSE IF year_mode = "yyyy" THEN Zfill(StrOf(year), 4)
    ELSE <<>>

\* prefix = f"{br}{yr}"
TagPrefix(branch_code, year_mode, year) ==
    BranchDigits(branch_code) \o YearComponent(year_mode, year)

Max2(a, b) == IF a >= b THEN a ELSE b

SeqMaxLastOnly(df, prefix, k, acc) ==
    LET t == df[Len(df)].asset_tag
    IN  IF Len(df) > 0 /\ IsDigitStr(t) /\ StartsWith(t, prefix)
           /\ IsDigitStr(DropFirst(t, Len(prefix)))
        THEN IntOf(DropFirst(t, Len(prefix))) ELSE 0

RECURSIVE SeqMax(_, _, _, _)
\* the loop "for t in cand": rows k..len(df), seq_max so far acc
SeqMax(df, prefix, k, acc) ==
    IF k > Len(df) THEN acc
    ELSE LET t == df[k].asset_tag
             tail == DropFirst(t, Len(prefix))
         IN  IF IsDigitStr(t) /\ StartsWith(t, prefix) /\ IsDigitStr(tail)
             THEN SeqMax(df, prefix, k + 1, Max2(acc, IntOf(tail)))
             ELSE SeqMax(df, prefix, k + 1, acc)

GenNoIncrement(df, branch_code, year_mode, seq_len, year) ==
    LET prefix == TagPrefix(branch_code, year_mode, year)
    IN  prefix \o Zfill(StrOf(SeqMax(df, prefix, 1, 0)), seq_len)

\* gen_next_tag_numeric(df, branch_code, year_mode, seq_len), at datetime.now()
gen_next_tag_numeric(df, branch_code, year_mode, seq_len, year) ==
    LET prefix == TagPrefix(branch_code, year_mode, year)
        seq_max == SeqMax(df, prefix, 1, 0)
        next_seq == Zfill(StrOf(seq_max + 1), seq_len)
    IN  prefix \o next_seq

\* --------------------------------------------- inputs of an allocator call
Str_SWC001 == <<"S", "W", "C", "0", "0", "1">>

Str_SW_C_099 == <<"S", "W", "-", "C", "-", "0", "9", "9">>

Str_B7 == <<"B", "7">>

Str_HQ == <<"H", "Q">>

Str_SWC1234 == <<"S", "W", "C", "1", "2", "3", "4">>

BranchCodes == {Str_SWC001, Str_SW_C_099, Str_B7, Str_HQ, Str_SWC1234}

\* the selectbox maps "(no year)" to ""
YearModes == {"yy", "yyyy", ""}

\* number_input min_value=3, max_value=8, value=5
SeqLens == {3, 5}

\* datetime.now().year at the time of the calls
Years == {2026}

\* remainders after the prefix: none, in-width, gap, full width, wider than
\* the smallest width, non-numeric
PoolTails ==
    { <<>>, <<"0", "0", "1">>, <<"0", "0", "2">>, <<"0", "0", "5">>,
      <<"9", "9", "9">>, <<"0", "0", "0", "3">>, <<"0", "A", "1">> }

\* a tag of another branch
ForeignTags == { <<"7", "7", "7", "0", "0", "1">> }

TagPool(prefix) == {prefix \o t : t \in PoolTails} \cup ForeignTags

\* a table of n rows whose asset_tag column is f
TableOf(f) == [k \in DOMAIN f |-> [id |-> k, asset_tag |-> f[k], branch |-> <<>>]]

TagTables(prefix) ==
    UNION { {TableOf(f) : f \in [1..n -> TagPool(prefix)]} : n \in 0..MaxTags }

AllocIdle ==
    [pc |-> "idle", df |-> <<>>, branch_code |-> <<>>, year_mode |-> "",
     seq_len |-> 0, result |-> <<>>]

\* no PDF build in progress
LabIdle == [pc |-> "idle"]

\* ------------------------------------------------- the allocator, in isolation
InitTag ==
    /\ now_year \in Years
    /\ \E b \in BranchCodes, ym \in YearModes, w \in SeqLens :
         \E t \in TagTables(TagPrefix(b, ym, now_year)) :
            alloc = [pc |-> "input", df |-> t, branch_code |-> b, year_mode |-> ym,
                     seq_len |-> w, result |-> <<>>]
    /\ lab = LabIdle
    /\ ws_assets = <<>>
    /\ ws_hist = <<>>
    /\ session_state = <<>>
    /\ run = <<>>

\* one call: lines 118-141
Allocate ==
    /\ alloc.pc = "input"
    /\ alloc' = [alloc EXCEPT
                   !.pc = "done",
                   !.result = gen_next_tag_numeric(alloc.df, alloc.branch_code,
                                                   alloc.year_mode, alloc.seq_len, now_year)]
    /\ UNCHANGED <<now_year, lab, ws_assets, ws_hist, session_state, run>>

NextTag == Allocate

SpecTag == InitTag /\ [][NextTag]_vars

\* ------------------------------------------------------------ label sheet
\* defaults of build_labels_pdf_fpdf
label_w_mm == 62

label_h_mm == 29

margin_mm == 5

\* name = str(...)[:28]
NameMax == 28

\* the width and height of the QR image, and its inset from the cell's right edge
QrSize == 20

QrInset == 22

\* s[:n]
Take(s, n) == IF Len(s) > n THEN SubSeq(s, 1, n) ELSE s

\* qrcode_png_bytes(data, box_size=3, border=0): the glyph, by what it encodes
qrcode_png_bytes(data) == [payload |-> data, box_size |-> 3, border |-> 0]

\* col = i % cols
LabelCol(i, cols) == i % cols

LabelRowNoWrap(i, cols, rows_per_page) == i \div cols

\* row = (i // cols) % rows_per_page
LabelRow(i, cols, rows_per_page) == (i \div cols) % rows_per_page

\* if i > 0 and row == 0 and col == 0: pdf.add_page()
NeedsNewPage(i, col, row) == i > 0 /\ row = 0 /\ col = 0

\* one iteration of "for _, r in rows.iterrows()": the cell placed for r
PlacedCell(r, i, page, cols, rows_per_page, col_w, row_h) ==
    LET col == LabelCol(i, cols)
        row == LabelRow(i, cols, rows_per_page)
        x == margin_mm + col * col_w
        y == margin_mm + row * row_h
        tag == r.asset_tag
    IN  [page |-> IF NeedsNewPage(i, col, row) THEN page + 1 ELSE page,
         new_page |-> NeedsNewPage(i, col, row),
         col |-> col, row |-> row, x |-> x, y |-> y,
         tag |-> tag, name |-> Take(r.name, NameMax), branch |-> r.branch,
         qr |-> qrcode_png_bytes(tag),
         qr_x |-> x + col_w - QrInset,
         \* twice qr_y = y + (row_h - 20)/2, to stay in the integers
         qr_y2 |-> 2 * y + (row_h - QrSize)]

Str_00126001 == <<"0", "0", "1", "2", "6", "0", "0", "0", "0", "1">>

Str_00126002 == <<"0", "0", "1", "2", "6", "0", "0", "0", "0", "2">>

Str_Router == <<"R", "o", "u", "t", "e", "r">>

\* a name longer than the 28 characters a label shows
Str_LongName == [k \in 1..30 |-> "n"]

\* the rows a label sheet is built from: tagged, untagged but named (an
\* imported row), and tagged with a long name
LabelPool ==
    << [asset_tag |-> Str_00126001, name |-> <<"P", "C">>, branch |-> Str_SWC001],
       [asset_tag |-> <<>>, name |-> Str_Router, branch |-> Str_SWC001],
       [asset_tag |-> Str_00126002, name |-> Str_LongName, branch |-> <<>>] >>

\* subset = df[df["asset_tag"].isin(selected)]: n rows, starting anywhere in the pool
LabelRows(n, shift) ==
    [k \in 1..n |-> LabelPool[((k - 1 + shift) % Len(LabelPool)) + 1]]

InitLabels ==
    /\ now_year \in Years
    /\ alloc = AllocIdle
    /\ \E n \in 0..MaxLabels, shift \in 0..(Len(LabelPool) - 1),
          c \in 1..MaxCols, rpp \in 1..MaxRowsPerPage :
         lab = [pc |-> "start", rows |-> LabelRows(n, shift), cols |-> c,
                rows_per_page |-> rpp, col_w |-> label_w_mm, row_h |-> label_h_mm,
                i |-> 0, pages |-> 0, cells |-> <<>>]
    /\ ws_assets = <<>>
    /\ ws_hist = <<>>
    /\ session_state = <<>>
    /\ run = <<>>

\* lines 174-186: the document, its font, the first page, i = 0
LabelsBegin ==
    /\ lab.pc = "start"
    /\ lab' = [lab EXCEPT !.pc = "loop", !.pages = 1, !.i = 0]
    /\ UNCHANGED <<now_year, alloc, ws_assets, ws_hist, session_state, run>>

\* lines 187-213: one row of the loop
LabelsPlace ==
    /\ lab.pc = "loop"
    /\ lab.i < Len(lab.rows)
    /\ LET cell == PlacedCell(lab.rows[lab.i + 1], lab.i, lab.pages, lab.cols,
                              lab.rows_per_page, lab.col_w, lab.row_h)
       IN  lab' = [lab EXCEPT !.pages = cell.page,
                              !.cells = Append(lab.cells, cell),
                              !.i = lab.i + 1]
    /\ UNCHANGED <<now_year, alloc, ws_assets, ws_hist, session_state, run>>

\* line 215: the loop is over, the document is returned
LabelsOutput ==
    /\ lab.pc = "loop"
    /\ lab.i = Len(lab.rows)
    /\ lab' = [lab EXCEPT !.pc = "done"]
    /\ UNCHANGED <<now_year, alloc, ws_assets, ws_hist, session_state, run>>

NextLabels == LabelsBegin \/ LabelsPlace \/ LabelsOutput

SpecLabels == InitLabels /\ [][NextLabels]_vars

\* ------------------------------------------------- worksheets and sessions
Sessions == {"s1", "s2"}

\* pandas' missing value in the Int64 "id" column, and Python's None for asset_id
NA == -1

\* dict helpers for st.session_state
HasKey(d, k) == k \in DOMAIN d

SetKey(d, k, v) == [x \in (DOMAIN d) \cup {k} |-> IF x = k THEN v ELSE d[x]]

PopKeys(d, ks) == [x \in (DOMAIN d) \ ks |-> d[x]]

\* st.session_state.get("current_user", "")
CurrentUser(d) == IF HasKey(d, "current_user") THEN d["current_user"] ELSE ""

\* st.session_state.get("auth_ok")
AuthOk(d) == HasKey(d, "auth_ok") /\ d["auth_ok"]

\* sha256_hex(s): a digest, told apart from the clear text and one per input
sha256_hex(p) == <<"sha256", p>>

\* st.secrets["users"]: one user with a clear password, one with a digest
Users ==
    [admin |-> [password_plain |-> "pw1"],
     staff |-> [password_sha256 |-> sha256_hex("pw2")]]

UserInputs == {"admin", "staff", "nobody"}

PwInputs == {"pw1", "pw2"}

\* lines 47-53: rec = users.get(u) and the two password checks
CredentialsOk(u, p) ==
    /\ u \in DOMAIN Users
    /\ LET rec == Users[u]
       IN  \/ HasKey(rec, "password_plain") /\ p = rec["password_plain"]
           \/ /\ ~(HasKey(rec, "password_plain") /\ p = rec["password_plain"])
              /\ HasKey(rec, "password_sha256")
              /\ sha256_hex(p) = rec["password_sha256"]

\* pd.to_numeric(cell, errors="coerce").astype("Int64")
ToNumeric(cell) == IF IsDigitStr(cell) THEN IntOf(cell) ELSE NA

\* read_assets_df: the worksheet's data rows as a DataFrame
read_assets_df(ws) ==
    [k \in 1..Len(ws) |->
        [id |-> ToNumeric(ws[k].id), asset_tag |-> ws[k].asset_tag,
         branch |-> ws[k].branch]]

\* df2.fillna("").astype(str).values.tolist()
SheetRows(df) ==
    [k \in 1..Len(df) |->
        [id |-> IF df[k].id = NA THEN <<>> ELSE StrOf(df[k].id),
         asset_tag |-> df[k].asset_tag, branch |-> df[k].branch]]

RangeUpdateAppend(ws, rows) == ws \o rows

\* ws.update("A1:O{len(out)}", out): the header and len(rows) data rows are
\* overwritten, rows below the range stay
RangeUpdate(ws, rows) ==
    IF Len(ws) > Len(rows) THEN rows \o SubSeq(ws, Len(rows) + 1, Len(ws)) ELSE rows

\* a cell written with value_input_option="USER_ENTERED": the sheet parses a
\* numeral as a number, so its leading zeros go
UserEntered(cell) == IF IsDigitStr(cell) THEN StrOf(IntOf(cell)) ELSE cell

\* the row handed to append_history (the timestamp and the fixed details left out)
HistRow(asset_id, asset_tag, action, user, branch) ==
    [asset_id |-> asset_id, asset_tag |-> UserEntered(asset_tag), action |-> action,
     user |-> user, branch |-> UserEntered(branch)]

RECURSIVE MaxId(_, _, _)
\* df["id"].max(), skipping NA
MaxId(df, k, acc) ==
    IF k > Len(df) THEN acc ELSE MaxId(df, k + 1, Max2(acc, df[k].id))

\* gen_next_id(df)
gen_next_id(df) ==
    IF df = <<>> \/ (\A k \in 1..Len(df) : df[k].id = NA) THEN 1
    ELSE MaxId(df, 1, NA) + 1

\* value in df["asset_tag"].values
HasTag(df, tag) == \E k \in 1..Len(df) : df[k].asset_tag = tag

\* df.index[df["asset_tag"] == tag][0]
FirstWithTag(df, tag) ==
    LET hits == {k \in 1..Len(df) : df[k].asset_tag = tag}
    IN  CHOOSE k \in hits : \A j \in hits : k <= j

HasId(df, id) == \E k \in 1..Len(df) : df[k].id = id

\* df.index[df["id"] == asset_id][0]
FirstWithId(df, id) ==
    LET hits == {k \in 1..Len(df) : df[k].id = id}
    IN  CHOOSE k \in hits : \A j \in hits : k <= j

RECURSIVE WithoutId(_, _)
\* df[df["id"] != asset_id]
WithoutId(df, id) ==
    IF df = <<>> THEN <<>>
    ELSE IF df[1].id = id THEN WithoutId(Tail(df), id)
    ELSE <<df[1]>> \o WithoutId(Tail(df), id)

\* ---------------------------------------------------------- the edit form
Str_001001 == <<"0", "0", "1", "0", "0", "1">>

Str_001002 == <<"0", "0", "1", "0", "0", "2">>

Str_PC_1 == <<"P", "C", "-", "1">>

\* what a user types into the branch field, the year selectbox, the width
FormBranches == {Str_SWC001, <<>>}

FormYearModes == {"", "yy"}

FormSeqLens == {3}

\* what a user types over the Asset Tag field
TypedTags == {Str_001002, Str_PC_1}

\* the tags a user looks up in edit mode: those on the page and one that is not
LookupTags(df) == {df[k].asset_tag : k \in 1..Len(df)} \cup {<<"9">>}

\* the widgets' values in the run of a button click
FormInputs(df) ==
    [edit_mode : BOOLEAN, lookup : LookupTags(df), retype_branch : BOOLEAN,
     branch : FormBranches, auto : BOOLEAN, year_mode : FormYearModes,
     seq_len : FormSeqLens, retype_tag : BOOLEAN, typed : TypedTags]

\* lines 251-275: asset_id and data as the form leaves them
FormData(df, in) ==
    LET found == in.edit_mode /\ in.lookup # <<>> /\ df # <<>> /\ HasTag(df, in.lookup)
        row == df[FirstWithTag(df, in.lookup)]
        branch == IF in.retype_branch THEN in.branch
                  ELSE IF found THEN row.branch ELSE <<>>
        loaded == IF found THEN row.asset_tag ELSE <<>>
        shown == IF in.auto /\ branch # <<>>
                 THEN gen_next_tag_numeric(df, branch, in.year_mode, in.seq_len, now_year)
                 ELSE loaded
    IN  [edit_mode |-> in.edit_mode,
         asset_id |-> IF found THEN row.id ELSE NA,
         auto |-> in.auto /\ branch # <<>>,
         year_mode |-> in.year_mode, seq_len |-> in.seq_len,
         branch |-> branch,
         asset_tag |-> IF in.retype_tag THEN in.typed ELSE shown]

\* ------------------------------------------------------------- CSV import
\* what pd.read_csv makes of one column and str() of its values: an all-integer
\* column becomes int64, integers with blanks float64, anything else stays text
CsvColumn(cells) ==
    LET n == Len(cells)
        allInt == \A k \in 1..n : IsDigitStr(cells[k])
        allNum == \A k \in 1..n : IsDigitStr(cells[k]) \/ cells[k] = <<>>
    IN  [k \in 1..n |->
            IF allInt THEN StrOf(IntOf(cells[k]))
            ELSE IF cells[k] = <<>> THEN <<>>
            ELSE IF allNum THEN StrOf(IntOf(cells[k])) \o <<".", "0">>
            ELSE cells[k]]

\* line 437: the data dict of every row of the uploaded file
ImportData(file) ==
    LET tags == CsvColumn([k \in 1..Len(file) |-> file[k].asset_tag])
        branches == CsvColumn([k \in 1..Len(file) |-> file[k].branch])
    IN  [k \in 1..Len(file) |-> [asset_tag |-> tags[k], branch |-> branches[k]]]

CsvTagCells == {Str_001001, Str_PC_1, <<>>}

CsvBranchCells == {Str_SWC001}

CsvFiles ==
    UNION { [1..n -> [asset_tag : CsvTagCells, branch : CsvBranchCells]] :
              n \in 0..MaxImportRows }

\* -------------------------------------------------------------- the state
RunIdle ==
    [pc |-> "idle", u |-> "", p |-> "", df |-> <<>>, df_cur |-> <<>>, form |-> <<>>,
     op |-> "none", msg |-> "none", out |-> <<>>, hrow |-> <<>>, imp |-> <<>>]

\* the worksheet at the start: no row, one row, two rows; tags distinct and numeric
InitialSheets ==
    { <<>>,
      << [id |-> <<"1">>, asset_tag |-> Str_001001, branch |-> Str_SWC001] >>,
      << [id |-> <<"1">>, asset_tag |-> Str_001001, branch |-> Str_SWC001],
         [id |-> <<"2">>, asset_tag |-> Str_001002, branch |-> Str_SWC001] >> }

Init ==
    /\ now_year \in Years
    /\ alloc = AllocIdle
    /\ lab = LabIdle
    /\ ws_assets \in InitialSheets
    /\ ws_hist = <<>>
    /\ session_state = [s \in Sessions |-> <<>>]
    /\ run = [s \in Sessions |-> RunIdle]

\* ------------------------------------------------------------ script runs
\* do_login, lines 43-44: the flag is created on the first run
WithAuthFlag(d) == IF HasKey(d, "auth_ok") THEN d ELSE SetKey(d, "auth_ok", FALSE)

\* the gate of GateAndRead left open: every run reads the table
GateOpen(s, d) ==
    /\ session_state' = [session_state EXCEPT ![s] = d]
    /\ run' = [run EXCEPT ![s] = [RunIdle EXCEPT !.pc = "page",
                                                 !.df = read_assets_df(ws_assets)]]

\* lines 61-68 and 223-225: an admitted run reads the table, any other stops
GateAndRead(s, d) ==
    /\ session_state' = [session_state EXCEPT ![s] = d]
    /\ run' = [run EXCEPT ![s] =
                  IF AuthOk(d) THEN [RunIdle EXCEPT !.pc = "page",
                                                    !.df = read_assets_df(ws_assets)]
                  ELSE RunIdle]

\* a run with Login pressed: do_login, lines 39-41, the widgets' values in u, p
RunLogin(s) ==
    /\ run[s].pc = "idle"
    /\ \E u \in UserInputs, p \in PwInputs :
         run' = [run EXCEPT ![s] = [RunIdle EXCEPT !.pc = "login", !.u = u, !.p = p]]
    /\ UNCHANGED <<now_year, alloc, lab, ws_assets, ws_hist, session_state>>

\* do_login with submit true, lines 43-68, then lines 223-225
CheckLogin(s) ==
    /\ run[s].pc = "login"
    /\ LET d0 == WithAuthFlag(session_state[s])
           d1 == IF CredentialsOk(run[s].u, run[s].p)
                 THEN SetKey(SetKey(d0, "auth_ok", TRUE), "current_user", run[s].u)
                 ELSE d0
       IN  GateAndRead(s, d1)
    /\ UNCHANGED <<now_year, alloc, lab, ws_assets, ws_hist>>

\* a run started by any other widget, or by the rerun after a logout
RunStart(s) ==
    /\ run[s].pc \in {"idle", "rerun"}
    /\ GateAndRead(s, WithAuthFlag(session_state[s]))
    /\ UNCHANGED <<now_year, alloc, lab, ws_assets, ws_hist>>

\* lines 61-65: the logout button drops the keys and reruns the script (the
\* widget keys "u" and "p" it also drops are the next run's empty inputs)
Logout(s) ==
    /\ run[s].pc = "idle"
    /\ AuthOk(session_state[s])
    /\ session_state' = [session_state EXCEPT
                            ![s] = PopKeys(session_state[s], {"auth_ok", "current_user"})]
    /\ run' = [run EXCEPT ![s] = [RunIdle EXCEPT !.pc = "rerun"]]
    /\ UNCHANGED <<now_year, alloc, lab, ws_assets, ws_hist>>

\* dashboard, search, print, history and scan pages: the run only shows df
ViewPage(s) ==
    /\ run[s].pc = "page"
    /\ run' = [run EXCEPT ![s].pc = "idle"]
    /\ UNCHANGED <<now_year, alloc, lab, ws_assets, ws_hist, session_state>>

\* lines 300-327, up to the write: what the save button leaves of the run
SaveOutcome(s, f) ==
    LET r == [run[s] EXCEPT !.form = f]
        user == CurrentUser(session_state[s])
        cur == read_assets_df(ws_assets)
        new_id == gen_next_id(cur)
        i == FirstWithId(cur, f.asset_id)
    IN  IF ~IsDigitStr(f.asset_tag)
        THEN [r EXCEPT !.pc = "idle", !.msg = "error_tag_not_digits"]
        ELSE IF f.asset_id = NA
        THEN IF cur # <<>> /\ HasTag(cur, f.asset_tag)
             THEN [r EXCEPT !.pc = "idle", !.op = "CREATE", !.df_cur = cur,
                            !.msg = "error_tag_duplicate"]
             ELSE [r EXCEPT !.pc = "clear", !.op = "CREATE", !.df_cur = cur,
                            !.out = Append(cur, [id |-> new_id, asset_tag |-> f.asset_tag,
                                                 branch |-> f.branch]),
                            !.hrow = <<HistRow(new_id, f.asset_tag, "CREATE", user,
                                               f.branch)>>]
        ELSE IF ~HasId(cur, f.asset_id)
             THEN [r EXCEPT !.pc = "idle", !.op = "UPDATE", !.df_cur = cur,
                            !.msg = "error_id_not_found"]
             ELSE [r EXCEPT !.pc = "clear", !.op = "UPDATE", !.df_cur = cur,
                            !.out = [cur EXCEPT ![i] = [id |-> cur[i].id,
                                                        asset_tag |-> f.asset_tag,
                                                        branch |-> f.branch]],
                            !.hrow = <<HistRow(f.asset_id, f.asset_tag, "UPDATE", user,
                                               f.branch)>>]

\* the save button pressed with the widgets set to one of inputs:
\* lines 251-327, the form, the checks and the fresh read
SaveWith(s, inputs) ==
    /\ run[s].pc = "page"
    /\ Len(ws_hist) < MaxHist
    /\ \E in \in inputs :
         run' = [run EXCEPT ![s] = SaveOutcome(s, FormData(run[s].df, in))]
    /\ UNCHANGED <<now_year, alloc, lab, ws_assets, ws_hist, session_state>>

SaveClick(s) == SaveWith(s, FormInputs(run[s].df))

\* the delete button: lines 329-334, up to the write
DeleteClick(s) ==
    /\ run[s].pc = "page"
    /\ Len(ws_hist) < MaxHist
    /\ \E in \in FormInputs(run[s].df) :
         LET f == FormData(run[s].df, in)
             cur == read_assets_df(ws_assets)
         IN  /\ f.edit_mode /\ f.asset_id # NA /\ f.asset_id # 0
             /\ run' = [run EXCEPT ![s] =
                   [run[s] EXCEPT !.pc = "clear", !.form = f, !.op = "DELETE",
                                  !.df_cur = cur,
                                  !.out = WithoutId(cur, f.asset_id),
                                  !.hrow = <<HistRow(f.asset_id, f.asset_tag, "DELETE",
                                                     CurrentUser(session_state[s]),
                                                     f.branch)>>]]
    /\ UNCHANGED <<now_year, alloc, lab, ws_assets, ws_hist, session_state>>

\* the import button: lines 429-435, the file parsed and the table read
ImportClick(s) ==
    /\ run[s].pc = "page"
    /\ \E file \in CsvFiles :
         LET cur == read_assets_df(ws_assets)
         IN  /\ Len(ws_hist) + Len(file) <= MaxHist
             /\ run' = [run EXCEPT ![s] =
                   [run[s] EXCEPT !.pc = IF file = <<>> THEN "clear" ELSE "import",
                                  !.op = "IMPORT", !.df_cur = cur, !.out = cur,
                                  !.imp = ImportData(file)]]
    /\ UNCHANGED <<now_year, alloc, lab, ws_assets, ws_hist, session_state>>

\* lines 436-449: one row of the import loop, its history row appended at once
ImportRow(s) ==
    /\ run[s].pc = "import"
    /\ LET data == Head(run[s].imp)
           cur == run[s].df_cur
           user == CurrentUser(session_state[s])
           hit == cur # <<>> /\ HasTag(cur, data.asset_tag)
           i == FirstWithTag(cur, data.asset_tag)
           new_id == gen_next_id(cur)
           cur2 == IF hit
                   THEN [cur EXCEPT ![i] = [id |-> cur[i].id, asset_tag |-> data.asset_tag,
                                            branch |-> data.branch]]
                   ELSE Append(cur, [id |-> new_id, asset_tag |-> data.asset_tag,
                                     branch |-> data.branch])
           h == IF hit
                THEN HistRow(cur[i].id, data.asset_tag, "IMPORT_UPDATE", user, data.branch)
                ELSE HistRow(new_id, data.asset_tag, "IMPORT_CREATE", user, data.branch)
       IN  /\ ws_hist' = Append(ws_hist, h)
           /\ run' = [run EXCEPT ![s] =
                 [run[s] EXCEPT !.pc = IF Tail(run[s].imp) = <<>> THEN "clear" ELSE "import",
                                !.df_cur = cur2, !.out = cur2,
                                !.imp = Tail(run[s].imp)]]
    /\ UNCHANGED <<now_year, alloc, lab, ws_assets, session_state>>

\* write_assets_df, line 107: ws_assets.clear()
ClearSheet(s) ==
    /\ run[s].pc = "clear"
    /\ ws_assets' = <<>>
    /\ run' = [run EXCEPT ![s].pc = "update"]
    /\ UNCHANGED <<now_year, alloc, lab, ws_hist, session_state>>

\* write_assets_df, line 108: ws_assets.update(range, out)
UpdateSheet(s) ==
    /\ run[s].pc = "update"
    /\ ws_assets' = RangeUpdate(ws_assets, SheetRows(run[s].out))
    /\ run' = [run EXCEPT ![s] =
          IF run[s].hrow # <<>> THEN [run[s] EXCEPT !.pc = "history"]
          ELSE [run[s] EXCEPT !.pc = "idle", !.msg = "done"]]
    /\ UNCHANGED <<now_year, alloc, lab, ws_hist, session_state>>

\* append_history after the write: lines 314, 326, 334
AppendHistory(s) ==
    /\ run[s].pc = "history"
    /\ ws_hist' = Append(ws_hist, run[s].hrow[1])
    /\ run' = [run EXCEPT ![s] = [run[s] EXCEPT !.pc = "idle", !.msg = "done"]]
    /\ UNCHANGED <<now_year, alloc, lab, ws_assets, session_state>>

\* one browser session at a time: every run ends before the next one starts
Next ==
    \/ RunLogin("s1")
    \/ CheckLogin("s1")
    \/ RunStart("s1")
    \/ Logout("s1")
    \/ ViewPage("s1")
    \/ SaveClick("s1")
    \/ DeleteClick("s1")
    \/ ImportClick("s1")
    \/ ImportRow("s1")
    \/ ClearSheet("s1")
    \/ UpdateSheet("s1")
    \/ AppendHistory("s1")

Spec == Init /\ [][Next]_vars

\* ---------------------------------------------------- concurrent sessions
\* two browser sessions, both past the login gate
InitRace ==
    /\ now_year \in Years
    /\ alloc = AllocIdle
    /\ lab = LabIdle
    /\ ws_assets \in InitialSheets
    /\ ws_hist = <<>>
    /\ session_state \in [Sessions -> {[auth_ok |-> TRUE, current_user |-> "admin"]}]
    /\ run = [s \in Sessions |-> RunIdle]

\* a new record with the tag generated from the branch: edit mode off, the
\* auto checkbox at its default, the generated tag left as shown
CreateInputs ==
    [edit_mode : {FALSE}, lookup : {<<>>}, retype_branch : {TRUE},
     branch : {Str_SWC001, Str_B7}, auto : {TRUE}, year_mode : {"yy"},
     seq_len : FormSeqLens, retype_tag : {FALSE}, typed : {<<>>}]

CreateClick(s) == SaveWith(s, CreateInputs)

\* the sessions' runs interleave at every call of the spreadsheet service
NextRace ==
    \E s \in Sessions :
        \/ RunStart(s)
        \/ CreateClick(s)
        \/ ClearSheet(s)
        \/ UpdateSheet(s)
        \/ AppendHistory(s)

SpecRace == InitRace /\ [][NextRace]_vars

\* ===================================================== claims: tag allocator
\* the sequences issued under a prefix: the integer values of the purely
\* numeric remainders of the existing tags that start with the prefix
IssuedSeqs(df, prefix) ==
    { IntOf(DropFirst(df[k].asset_tag, Len(prefix))) :
        k \in { j \in 1..Len(df) :
                  /\ StartsWith(df[j].asset_tag, prefix)
                  /\ IsDigitStr(DropFirst(df[j].asset_tag, Len(prefix))) } }

\* M: the largest issued sequence, 0 when none was issued
IssuedMax(seqs) == CHOOSE m \in seqs \cup {0} : \A x \in seqs : x <= m

\* C1: the allocated tag is the prefix followed by M + 1 zero-padded to the
\* sequence width, M the largest sequence issued under the prefix (0 when none);
\* it is max + 1 and fills no gap: after {1,2,5} the next sequence is 6.
C1_NextIsMaxPlusOne ==
    alloc.pc = "done" =>
        LET prefix == TagPrefix(alloc.branch_code, alloc.year_mode, now_year)
            seqs == IssuedSeqs(alloc.df, prefix)
            field == DropFirst(alloc.result, Len(prefix))
            next == IntOf(field)
        IN  /\ StartsWith(alloc.result, prefix)
            /\ IsDigitStr(field)
            /\ next = IssuedMax(seqs) + 1
            /\ Len(field) >= alloc.seq_len
            /\ (Len(field) > alloc.seq_len => field[1] # "0")
            /\ (seqs = {} => next = 1)
            /\ (seqs = {1, 2, 5} => next = 6)

\* C1 witness: a call made with the sequences {1,2,5} issued returned 6
C1_Witness ==
    /\ alloc.pc = "done"
    /\ LET prefix == TagPrefix(alloc.branch_code, alloc.year_mode, now_year)
       IN  /\ IssuedSeqs(alloc.df, prefix) = {1, 2, 5}
           /\ IntOf(DropFirst(alloc.result, Len(prefix))) = 6

\* the branch field as the claim words it: the first 3 digit characters of
\* the branch code, left-padded with "0" to 3 characters
FirstThreeDigits(branch_code) ==
    LET d == FindAllDigits(branch_code)
        f == IF Len(d) > 3 THEN SubSeq(d, 1, 3) ELSE d
    IN  Repeat0(3 - Len(f)) \o f

\* C2: the branch-digits field of the allocated tag is exactly 3 characters,
\* the first 3 digits of the branch code left-padded with "0"; the year
\* component follows it directly.
C2_BranchFieldIsFirstThree ==
    alloc.pc = "done" =>
        /\ Len(BranchDigits(alloc.branch_code)) = 3
        /\ BranchDigits(alloc.branch_code) = FirstThreeDigits(alloc.branch_code)
        /\ StartsWith(alloc.result,
                      FirstThreeDigits(alloc.branch_code)
                          \o YearComponent(alloc.year_mode, now_year))

\* C3: the allocated tag equals no tag of the existing collection.
C3_NoCollision ==
    alloc.pc = "done" =>
        \A k \in 1..Len(alloc.df) : alloc.df[k].asset_tag # alloc.result

\* C3 witness: a call over a table holding the bare prefix, a non-numeric tag
\* and a tag under the prefix wider than the configured width
C3_Witness ==
    /\ alloc.pc = "done"
    /\ LET prefix == TagPrefix(alloc.branch_code, alloc.year_mode, now_year)
       IN  \E i, j, k \in 1..Len(alloc.df) :
            /\ alloc.df[i].asset_tag = prefix
            /\ ~IsDigitStr(alloc.df[j].asset_tag)
            /\ StartsWith(alloc.df[k].asset_tag, prefix)
            /\ Len(alloc.df[k].asset_tag) > Len(prefix) + alloc.seq_len
            /\ IntOf(DropFirst(alloc.result, Len(prefix))) = 4

\* C10: overflow is not checked: when M + 1 has more digits than the sequence
\* width the sequence field is the full numeral of M + 1 (nothing raised,
\* wrapped or cut); the field's length is the larger of the width and the
\* numeral's digit count.
C10_OverflowWidens ==
    alloc.pc = "done" =>
        LET prefix == TagPrefix(alloc.branch_code, alloc.year_mode, now_year)
            numeral == StrOf(IssuedMax(IssuedSeqs(alloc.df, prefix)) + 1)
            field == DropFirst(alloc.result, Len(prefix))
        IN  /\ Len(field) = Max2(alloc.seq_len, Len(numeral))
            /\ (Len(numeral) > alloc.seq_len =>
                    /\ alloc.result = prefix \o numeral
                    /\ Len(field) > alloc.seq_len)

\* C10 witness: width 3 and 999 issued: the call returned the sequence 1000
C10_Witness ==
    /\ alloc.pc = "done"
    /\ alloc.seq_len = 3
    /\ LET prefix == TagPrefix(alloc.branch_code, alloc.year_mode, now_year)
       IN  /\ IssuedMax(IssuedSeqs(alloc.df, prefix)) = 999
           /\ DropFirst(alloc.result, Len(prefix)) = <<"1", "0", "0", "0">>

\* ======================================================== claims: label sheet
\* C5: record i (zero-based) has cell_index = i mod (cols * rows_per_page),
\* column = cell_index mod cols, row = cell_index div cols, is placed at
\* x = margin + column * cell_width, y = margin + row * cell_height, and starts
\* a new page exactly when cell_index = 0 and i # 0; so it lies on page
\* i div (cols * rows_per_page), no two records of a page share a cell, and 25
\* records on a 3 x 8 grid give 2 pages with record 24 at column 0, row 0 of
\* page 2.
C5_GridPlacement ==
    lab.pc \in {"loop", "done"} =>
        LET cap == lab.cols * lab.rows_per_page
        IN  /\ \A k \in 1..Len(lab.cells) :
                 LET i == k - 1
                     cell_index == i % cap
                     c == lab.cells[k]
                 IN  /\ c.col = cell_index % lab.cols
                     /\ c.row = cell_index \div lab.cols
                     /\ c.x = margin_mm + c.col * lab.col_w
                     /\ c.y = margin_mm + c.row * lab.row_h
                     /\ c.new_page <=> (cell_index = 0 /\ i # 0)
                     /\ c.page = (i \div cap) + 1
            /\ \A j, k \in 1..Len(lab.cells) :
                 (j # k /\ lab.cells[j].page = lab.cells[k].page) =>
                     <<lab.cells[j].col, lab.cells[j].row>>
                         # <<lab.cells[k].col, lab.cells[k].row>>
            /\ (lab.pc = "done" /\ Len(lab.rows) = 25 /\ lab.cols = 3
                    /\ lab.rows_per_page = 8) =>
                   /\ lab.pages = 2
                   /\ lab.cells[25].page = 2
                   /\ lab.cells[25].col = 0
                   /\ lab.cells[25].row = 0
                   /\ \A k \in 1..24 : lab.cells[k].page = 1

\* C5 witness: 25 records were laid out on a 3 x 8 grid
C5_Witness ==
    /\ lab.pc = "done"
    /\ Len(lab.rows) = 25 /\ lab.cols = 3 /\ lab.rows_per_page = 8
    /\ Len(lab.cells) = 25
    /\ lab.pages = 2

\* ceil(n / d)
CeilDiv(n, d) == (n + d - 1) \div d

\* C6: rendering n records gives ceil(n / (cols * rows_per_page)) pages, and
\* rendering an empty collection gives zero pages.
C6_PageCount ==
    lab.pc = "done" =>
        /\ lab.pages = CeilDiv(Len(lab.rows), lab.cols * lab.rows_per_page)
        /\ (Len(lab.rows) = 0 => lab.pages = 0)

\* C7: the QR glyph of every cell encodes the record's asset_tag when that is
\* non-empty, and the record's name when asset_tag is empty.
C7_QrPayload ==
    lab.pc \in {"loop", "done"} =>
        \A k \in 1..Len(lab.cells) :
            lab.cells[k].qr.payload =
                IF lab.rows[k].asset_tag # <<>> THEN lab.rows[k].asset_tag
                ELSE lab.rows[k].name

\* ==================================================== claims: the asset table
\* no two rows of the worksheet carry the same asset_tag
TagsUnique(ws) ==
    \A j, k \in 1..Len(ws) : j # k => ws[j].asset_tag # ws[k].asset_tag

\* every asset_tag of the worksheet is a non-empty string of decimal digits
TagsNumeric(ws) == \A k \in 1..Len(ws) : IsDigitStr(ws[k].asset_tag)

\* C8: asset tags stay unique in the store over create, edit-mode update,
\* delete and CSV import by one session; a create whose tag is in the freshly
\* read table is rejected and changes neither the table nor the history.
C8_TagsStayUnique ==
    [][ /\ (TagsUnique(ws_assets) => TagsUnique(ws_assets'))
        /\ (run["s1"].pc = "page" /\ run'["s1"].msg = "error_tag_duplicate"
               => UNCHANGED <<ws_assets, ws_hist>>) ]_vars

\* C9: asset tags stay digits-only in the store over create, edit-mode update,
\* delete and CSV import; a save whose tag is not purely digits is rejected
\* and changes neither the table nor the history.
C9_TagsStayNumeric ==
    [][ /\ (TagsNumeric(ws_assets) => TagsNumeric(ws_assets'))
        /\ (run["s1"].pc = "page" /\ run'["s1"].msg = "error_tag_not_digits"
               => UNCHANGED <<ws_assets, ws_hist>>) ]_vars

\* ================================================ claims: concurrent creates
\* the number of rows of ws that carry the tag
RowsWithTag(ws, tag) == Cardinality({k \in 1..Len(ws) : ws[k].asset_tag = tag})

\* both sessions have finished a create whose tag was generated for the same
\* branch and settings from the same snapshot of the table, and each read that
\* same table for its duplicate check, the other not having written yet
BothCreatedFromOneSnapshot ==
    LET a == run["s1"]
        b == run["s2"]
    IN  /\ a.pc = "idle" /\ a.op = "CREATE" /\ a.msg = "done"
        /\ b.pc = "idle" /\ b.op = "CREATE" /\ b.msg = "done"
        /\ a.form.auto /\ b.form.auto
        /\ a.form.branch = b.form.branch
        /\ a.form.year_mode = b.form.year_mode
        /\ a.form.seq_len = b.form.seq_len
        /\ a.df = b.df
        /\ a.df_cur = a.df
        /\ b.df_cur = b.df

AllRunsIdle == \A s \in Sessions : run[s].pc = "idle"

\* the worksheet holds a row with the id and the tag of history row h
TableHolds(ws, h) ==
    \E k \in 1..Len(ws) :
        /\ ToNumeric(ws[k].id) = h.asset_id
        /\ UserEntered(ws[k].asset_tag) = h.asset_tag

\* the worksheet holds a row with the id of history row h
TableHoldsId(ws, h) == \E k \in 1..Len(ws) : ToNumeric(ws[k].id) = h.asset_id

\* history row n is the last one logged for its asset id
LatestForId(hist, n) == \A j \in (n + 1)..Len(hist) : hist[j].asset_id # hist[n].asset_id

\* a step leaves the history as it was or appends exactly one row to it
HistoryAppendOnly ==
    \/ ws_hist' = ws_hist
    \/ /\ Len(ws_hist') = Len(ws_hist) + 1
       /\ SubSeq(ws_hist', 1, Len(ws_hist)) = ws_hist

\* C11: once every operation has finished, a table change and its history row
\* are both present or both absent: the last history row logged for an asset
\* id agrees with the asset table, that is, after a CREATE, UPDATE,
\* IMPORT_CREATE or IMPORT_UPDATE the table holds the record with that id and
\* tag, and after a DELETE it holds no record with that id.
C11_HistoryMatchesTable ==
    AllRunsIdle =>
        \A n \in 1..Len(ws_hist) :
            LatestForId(ws_hist, n) =>
                IF ws_hist[n].action = "DELETE"
                THEN ~TableHoldsId(ws_assets, ws_hist[n])
                ELSE TableHolds(ws_assets, ws_hist[n])

\* the history is append-only: no step removes or rewrites a logged row
C11_AppendOnly == [][HistoryAppendOnly]_vars

\* ======================================================== claims: login gate
\* a run of session s is past the gate: it has read the table or is writing
PastGate(s) == run[s].pc \in {"page", "import", "clear", "update", "history"}

\* the credential table as the claim words it: the user is in the table and the
\* password is the stored plain one or hashes to the stored SHA-256 one
ValidLogin(u, p) ==
    /\ u \in DOMAIN Users
    /\ \/ "password_plain" \in DOMAIN Users[u] /\ Users[u]["password_plain"] = p
       \/ "password_sha256" \in DOMAIN Users[u]
            /\ Users[u]["password_sha256"] = sha256_hex(p)

GateHolds ==
    \A s \in Sessions :
        /\ PastGate(s) => AuthOk(session_state[s])
        /\ HasKey(session_state[s], "current_user") =>
              AuthOk(session_state[s]) /\ session_state[s]["current_user"] \in DOMAIN Users

\* auth_ok turns true only in a run with Login submitted and valid credentials
LoginStep(s) ==
    (~AuthOk(session_state[s]) /\ AuthOk(session_state'[s])) =>
        /\ run[s].pc = "login"
        /\ ValidLogin(run[s].u, run[s].p)
        /\ CurrentUser(session_state'[s]) = run[s].u

\* auth_ok stops being true only by a logout that discards both keys and starts
\* a run that has to pass the gate again
LogoutStep(s) ==
    (AuthOk(session_state[s]) /\ ~AuthOk(session_state'[s])) =>
        /\ ~HasKey(session_state'[s], "auth_ok")
        /\ ~HasKey(session_state'[s], "current_user")
        /\ run'[s].pc = "rerun"

\* C12: the login gate holds in every reachable state: a run that reads or
\* changes the asset table or the history is in a session whose auth_ok is
\* true; auth_ok becomes true only when Login is submitted with a user of the
\* credential table and that user's plain or SHA-256 password; a logout
\* discards auth_ok and current_user, so the next run needs a login again.
C12_LoginGate ==
    /\ []GateHolds
    /\ [][\A s \in Sessions : LoginStep(s) /\ LogoutStep(s)]_vars

\* C12 witness: a user who logged in with the SHA-256 password and changed the
\* table has logged out: both keys are gone and the rerun is pending
C12_Witness ==
    /\ run["s1"].pc = "rerun"
    /\ ~HasKey(session_state["s1"], "auth_ok")
    /\ ~HasKey(session_state["s1"], "current_user")
    /\ ws_hist # <<>>
    /\ ws_hist[Len(ws_hist)].user = "staff"

====
